---- MODULE Spec2Model ----
(***************************************************************************)
(* Capture pipeline of the Little Plains archive: URL normalisation and    *)
(* classification, the capture endpoint (exists-check, insert, enqueue),   *)
(* the Pub/Sub-triggered worker processCapture (status write, scrape,      *)
(* media upload, analysis, save) and the maintenance script that           *)
(* re-publishes pending items.                                             *)
(***************************************************************************)
EXTENDS Integers, Sequences, FiniteSets, Bags, TLC

NULL == "null"

(***************************************************************************)
(* Bounds of the model.                                                    *)
(***************************************************************************)
\* worker invocations that can be in flight at once
NumWorkers == 2
\* deliveries of queue messages (first deliveries, duplicates, redeliveries)
MaxDeliveries == 3
\* concurrent requests to the capture endpoint
NumClients == 2
\* runs of the maintenance script
MaxScriptRuns == 1

Workers == 1..NumWorkers
Clients == 1..NumClients

(***************************************************************************)
(* URLs.  A parsed URL is a record: protocol, hostname, pathname as the    *)
(* sequence of its "/"-separated segments ("/" is <<"">>, "/a/" is         *)
(* <<"a","">>) and search as a sequence of key/value pairs.  href of the   *)
(* record is the string protocol//hostname/seg/seg?k=v&k=v.                *)
(***************************************************************************)
Url(protocol, hostname, pathname, search) ==
    [protocol |-> protocol, hostname |-> hostname,
     pathname |-> pathname, search |-> search]

Param(k, v) == [k |-> k, v |-> v]

\* packages/core validateUrl: TRACKING_PARAMS
TRACKING_PARAMS ==
    {"utm_source", "utm_medium", "utm_campaign", "utm_content", "utm_term",
     "igsh", "igshid", "ig_rid", "s", "t", "ref", "ref_src", "ref_url",
     "fbclid", "gclid", "gclsrc", "mc_cid", "mc_eid", "_ga", "_gl"}

\* String.prototype.toLowerCase on the hostnames of the model
ToLowerCase(s) ==
    CASE s = "X.com" -> "x.com"
      [] s = "Example.com" -> "example.com"
      [] OTHER -> s

\* s.endsWith('/') on the query values of the model
EndsWithSlash(s) == s \in {"/", "a/"}

\* s.slice(0, -1) on the query values of the model
SliceLast(s) ==
    CASE s = "a/" -> "a"
      [] s = "/" -> ""
      [] s = "1" -> ""
      [] OTHER -> s

RECURSIVE DeleteParams(_)
\* parsed.searchParams.delete(param) for every tracking parameter
DeleteParams(search) ==
    IF search = <<>> THEN <<>>
    ELSE IF Head(search).k \in TRACKING_PARAMS
         THEN DeleteParams(Tail(search))
         ELSE <<Head(search)>> \o DeleteParams(Tail(search))

\* normalized.endsWith('/') on parsed.href
HrefEndsWithSlash(u) ==
    IF u.search = <<>>
    THEN u.pathname[Len(u.pathname)] = ""
    ELSE EndsWithSlash(u.search[Len(u.search)].v)

\* normalized.slice(0, -1) on an href that ends with "/"
HrefSliceLast(u) ==
    IF u.search = <<>>
    THEN [u EXCEPT !.pathname = SubSeq(u.pathname, 1, Len(u.pathname) - 1)]
    ELSE [u EXCEPT !.search[Len(u.search)].v = SliceLast(u.search[Len(u.search)].v)]

\* an input that new URL() cannot parse
NotAUrl == Url("", "", <<"">>, <<>>)

\* validateUrl: [valid, normalized]
validateUrl(url) ==
    IF url = NotAUrl THEN [valid |-> FALSE, normalized |-> NotAUrl]
    ELSE IF url.protocol \notin {"http:", "https:"}
    THEN [valid |-> FALSE, normalized |-> NotAUrl]
    ELSE LET parsed == [url EXCEPT !.search = DeleteParams(url.search),
                                   !.hostname = ToLowerCase(url.hostname)]
         IN  [valid |-> TRUE,
              normalized |->
                  IF HrefEndsWithSlash(parsed) /\ parsed.pathname # <<"">>
                  THEN HrefSliceLast(parsed)
                  ELSE parsed]

\* the strings of which the href of a URL is made
UrlParts(u) ==
    {u.hostname} \cup {u.pathname[i] : i \in 1..Len(u.pathname)}
       \cup {u.search[i].k : i \in 1..Len(u.search)}
       \cup {u.search[i].v : i \in 1..Len(u.search)}

\* part.toLowerCase().includes(pat) on the strings of the model
Includes(part, pat) ==
    \/ ToLowerCase(part) = pat
    \/ <<ToLowerCase(part), pat>> \in
          {<<"www.x.com", "x.com">>, <<"netflix.com", "x.com">>,
           <<"mobile.twitter.com", "twitter.com">>,
           <<"www.youtube.com", "youtube.com">>}

UrlIncludes(u, pat) == \E part \in UrlParts(u) : Includes(part, pat)

\* detectSourceType: substring tests on the whole lower-cased URL string
detectSourceType(u) ==
    IF UrlIncludes(u, "twitter.com") \/ UrlIncludes(u, "x.com") THEN "twitter"
    ELSE IF UrlIncludes(u, "instagram.com") THEN "instagram"
    ELSE IF UrlIncludes(u, "youtube.com") \/ UrlIncludes(u, "youtu.be") THEN "youtube"
    ELSE IF UrlIncludes(u, "linkedin.com") THEN "linkedin"
    ELSE IF UrlIncludes(u, "pinterest.com") \/ UrlIncludes(u, "pin.it") THEN "pinterest"
    ELSE "web"

\* URLs submitted to the capture endpoint in the model
WebUrl == Url("https:", "example.com", <<"a">>, <<>>)
WebUrlSlash == Url("https:", "example.com", <<"a", "">>, <<>>)
WebUrlTracked == Url("https:", "example.com", <<"a">>, <<Param("utm_source", "1")>>)
TweetUrl == Url("https:", "x.com", <<"user", "status", "123">>, <<>>)
ProfileUrl == Url("https:", "x.com", <<"user">>, <<>>)
FtpUrl == Url("ftp:", "example.com", <<"a">>, <<>>)

SubmittedUrls ==
    {WebUrl, WebUrlSlash, WebUrlTracked, TweetUrl, ProfileUrl, FtpUrl}

\* notes of a capture request (optional)
SubmittedNotes == {NULL, "note"}

\* the request bodies: all of the model, or a few of them
AllRequests == [url : SubmittedUrls \cup {NotAUrl}, notes : SubmittedNotes]

FewRequests ==
    {[url |-> WebUrlSlash, notes |-> "note"], [url |-> TweetUrl, notes |-> NULL],
     [url |-> FtpUrl, notes |-> NULL]}

(***************************************************************************)
(* State.                                                                  *)
(*   content_items  the table content_items, a sequence of rows; the id of *)
(*                  a row is its index                                     *)
(*   queue          the Pub/Sub topic: bag of messages waiting for delivery*)
(*   req            the requests to the capture endpoint, one per client   *)
(*   wk             the invocations of processCapture, one per worker slot *)
(*   deliveries     number of deliveries made so far                       *)
(*   scriptRuns     number of runs of the process-pending script           *)
(*   scriptItems    the rows that a running process-pending script has     *)
(*                  selected and not yet published                         *)
(*   apifyToken     whether APIFY_API_TOKEN is set in the worker           *)
(*   replayed       the responses of the external services that a replayed *)
(*                  run receives                                           *)
(*   snapshot       the rows as the finished replayed runs left them, each *)
(*                  with the message of the run                            *)
(*   call           the last application of one of the functions of the    *)
(*                  pipeline to an input: its name, input and result       *)
(***************************************************************************)
VARIABLES content_items, queue, req, wk, deliveries, scriptRuns, scriptItems,
          apifyToken, replayed, snapshot, call

vars == <<content_items, queue, req, wk, deliveries, scriptRuns, scriptItems,
          apifyToken, replayed, snapshot, call>>

Ids == 1..Len(content_items)

\* no function has been applied
NoCall == [fn |-> "none"]

\* An error message is a sequence of lines; the SQL NULL is the empty one.
NoError == <<>>

\* A JSON object is the set of its key/value pairs; the SQL NULL of a JSONB
\* column is the set NullObject.
NullObject == {<<NULL, NULL>>}

\* the row that createCapture inserts
NewRow(url, sourceType, notes) ==
    [source_url |-> url, source_type |-> sourceType, status |-> "pending",
     error_message |-> NoError, title |-> NULL, images |-> <<>>,
     summary |-> NULL, topics |-> <<>>,
     platform_data |-> IF notes # NULL THEN {<<"user_notes", notes>>}
                                       ELSE NullObject,
     processed_at |-> FALSE]

\* captureExists: select id where source_url = url, .single()
captureExists(url) == \E i \in Ids : content_items[i].source_url = url

\* the queue message built by the capture endpoint
CaptureMessage(captureId, url, sourceType, notes) ==
    [captureId |-> captureId, url |-> url, sourceType |-> sourceType,
     notes |-> notes]

IdleReq == [pc |-> "idle", notes |-> NULL, normalized |-> NotAUrl,
            id |-> 0, queued |-> FALSE, response |-> NULL]

(***************************************************************************)
(* The capture endpoint, POST /api/capture.  One action per await.         *)
(***************************************************************************)
\* request.json(), captureRequestSchema.safeParse, validateUrl
PostValidate(c, url, notes) ==
    /\ req[c].pc = "idle"
    /\ LET urlValidation == validateUrl(url)
       IN  IF ~urlValidation.valid
           THEN req' = [req EXCEPT ![c] = [IdleReq EXCEPT
                             !.pc = "done", !.response = "400"]]
           ELSE req' = [req EXCEPT ![c] = [IdleReq EXCEPT
                             !.pc = "exists", !.notes = notes,
                             !.normalized = urlValidation.normalized]]
    /\ UNCHANGED <<content_items, queue, wk, deliveries, scriptRuns,
                   scriptItems, apifyToken, replayed, snapshot, call>>

\* await captureExists(normalizedUrl)
PostCaptureExists(c) ==
    /\ req[c].pc = "exists"
    /\ IF captureExists(req[c].normalized)
       THEN req' = [req EXCEPT ![c].pc = "done", ![c].response = "409"]
       ELSE req' = [req EXCEPT ![c].pc = "create"]
    /\ UNCHANGED <<content_items, queue, wk, deliveries, scriptRuns,
                   scriptItems, apifyToken, replayed, snapshot, call>>

\* an insert into a table without the UNIQUE constraint on source_url
InsertIgnoresUnique(url, dbOk) == dbOk

\* createCapture's insert: the table rejects a second row with the same
\* source_url (UNIQUE), and the insert can fail for other reasons (dbOk)
InsertSucceeds(url, dbOk) == dbOk /\ ~captureExists(url)

\* await createCapture(normalizedUrl, sourceType, notes)
PostCreateCapture(c, dbOk) ==
    /\ req[c].pc = "create"
    /\ LET url == req[c].normalized
           sourceType == detectSourceType(url)
       IN  IF InsertSucceeds(url, dbOk)
           THEN /\ content_items' = Append(content_items,
                                        NewRow(url, sourceType, req[c].notes))
                /\ req' = [req EXCEPT ![c].pc = "send",
                                      ![c].id = Len(content_items) + 1]
           ELSE /\ req' = [req EXCEPT ![c].pc = "done", ![c].response = "500"]
                /\ UNCHANGED content_items
    /\ UNCHANGED <<queue, wk, deliveries, scriptRuns, scriptItems, apifyToken,
                   replayed, snapshot, call>>

\* await sendToQueue(message), then the response {id, status: 'pending'}
PostSendToQueue(c, published) ==
    /\ req[c].pc = "send"
    /\ LET url == req[c].normalized
           message == CaptureMessage(req[c].id, url, detectSourceType(url),
                                     req[c].notes)
       IN  queue' = IF published THEN queue (+) SetToBag({message}) ELSE queue
    /\ req' = [req EXCEPT ![c].pc = "done", ![c].queued = published,
                          ![c].response = "pending"]
    /\ UNCHANGED <<content_items, wk, deliveries, scriptRuns, scriptItems,
                   apifyToken, replayed, snapshot, call>>

Post(c, Requests) ==
    \/ \E r \in Requests : PostValidate(c, r.url, r.notes)
    \/ PostCaptureExists(c)
    \/ \E dbOk \in BOOLEAN : PostCreateCapture(c, dbOk)
    \/ \E published \in BOOLEAN : PostSendToQueue(c, published)


(***************************************************************************)
(* Scrapers.  A scrape is a function of the URL and of the responses of    *)
(* the external services; its result is [ok, content, error, attempted,    *)
(* reasons]: the content when ok, the message of the thrown Error          *)
(* otherwise, the number of strategies that were attempted and the number  *)
(* of failure reasons that the message carries.                            *)
(***************************************************************************)
NoContent == [title |-> NULL, description |-> NULL, bodyText |-> NULL,
              images |-> <<>>, screenshot |-> NULL, platformData |-> {}]

Success(content, attempted) ==
    [ok |-> TRUE, content |-> content, error |-> NoError,
     attempted |-> attempted, reasons |-> 0]

Failure(error, attempted, reasons) ==
    [ok |-> FALSE, content |-> NoContent, error |-> error,
     attempted |-> attempted, reasons |-> reasons]

\* url.match(/(?:twitter|x)\.com\/(\w+)\/status\/(\d+)/i)
MatchesStatus(u) ==
    /\ Includes(u.hostname, "twitter.com") \/ Includes(u.hostname, "x.com")
    /\ Len(u.pathname) >= 3
    /\ u.pathname[1] # ""
    /\ u.pathname[2] = "status"
    /\ u.pathname[3] \in {"123", "456"}

\* texts of the tweets that an Apify actor returns in the model (a call can
\* also throw, "throw", or give an empty dataset, "empty")
ActorTexts == {"a real tweet", "test tweet", "hey"}

\* the invalidPatterns of isValidTweetData on the texts of the model
MatchesInvalidPattern(text) == text \in {"test tweet"}

\* text.length on the texts of the model
TextLength(text) ==
    CASE text = "a real tweet" -> 12
      [] text = "test tweet" -> 10
      [] text = "hey" -> 3
      [] OTHER -> 0

MinTweetLength == 5

\* an isValidTweetData without the test of the length
isValidTweetDataAnyLength(text) == ~MatchesInvalidPattern(text)

\* TwitterScraper.isValidTweetData
isValidTweetData(text) ==
    /\ ~MatchesInvalidPattern(text)
    /\ TextLength(text) >= MinTweetLength

\* the actors that fetchFromApify tries, in order
NumActors == 3

RECURSIVE ApifyLoop(_, _)
\* the for loop of fetchFromApify from actor i on: [found, actor, tried];
\* an actor that throws is logged and skipped, an invalid tweet is skipped
ApifyLoop(actors, i) ==
    IF i > NumActors THEN [found |-> FALSE, actor |-> 0, tried |-> NumActors]
    ELSE IF actors[i] \in ActorTexts /\ isValidTweetData(actors[i])
    THEN [found |-> TRUE, actor |-> i, tried |-> i]
    ELSE ApifyLoop(actors, i + 1)

\* TwitterScraper.fetchFromApify: the result, null when no actor gave a tweet
fetchFromApify(actors) == ApifyLoop(actors, 1)

TweetContent(strategy, images) ==
    [title |-> strategy, description |-> strategy, bodyText |-> strategy,
     images |-> images, screenshot |-> NULL,
     platformData |-> {<<"tweetId", "123">>}]

\* what the actors give, in the order of the calls, in the model
ActorRuns ==
    {[i \in 1..NumActors |-> "throw"],
     [i \in 1..NumActors |-> IF i = 1 THEN "test tweet" ELSE
                              IF i = 2 THEN "hey" ELSE "empty"],
     [i \in 1..NumActors |-> IF i = 1 THEN "test tweet" ELSE
                              IF i = 2 THEN "a real tweet" ELSE "throw"],
     [i \in 1..NumActors |-> IF i = 1 THEN "a real tweet" ELSE "throw"]}

\* responses of the services that TwitterScraper.scrape calls
TwitterResponses ==
    [fx : {"ok", "fail"}, vx : {"ok", "fail"}, actors : ActorRuns]

\* a scrape that asks VxTwitter before FxTwitter
TwitterScrapeVxFirst(u, client, r) ==
    IF ~MatchesStatus(u)
    THEN Failure(<<"Invalid Twitter/X URL format">>, 0, 0)
    ELSE IF r.vx = "ok" THEN Success(TweetContent("vx", <<>>), 1)
    ELSE IF r.fx = "ok" THEN Success(TweetContent("fx", <<1>>), 2)
    ELSE Failure(<<"No tweet data returned. Errors:">>, 2, 2)

\* TwitterScraper.scrape
TwitterScrape(u, client, r) ==
    IF ~MatchesStatus(u)
    THEN Failure(<<"Invalid Twitter/X URL format">>, 0, 0)
    ELSE IF r.fx = "ok"
    THEN Success(TweetContent("fx", <<1>>), 1)
    ELSE LET errors1 == <<"FxTwitter failed">>
         IN  IF r.vx = "ok"
             THEN Success(TweetContent("vx", <<>>), 2)
             ELSE LET errors2 == Append(errors1, "VxTwitter failed")
                      apify == fetchFromApify(r.actors)
                  IN  IF client /\ apify.found
                      THEN Success(TweetContent("apify", <<>>), 2 + apify.tried)
                      ELSE Failure(<<"No tweet data returned. Errors:">> \o errors2,
                                   2 + (IF client THEN apify.tried ELSE 0),
                                   Len(errors2))

\* images of a page in the model (an image URL is a number)
MaxImages == 1

PageImages == [i \in 1..MaxImages |-> i]

PageResponse(fetch, nimages, screenshot) ==
    [fetch |-> fetch, nimages |-> nimages, screenshot |-> screenshot]

\* responses of the page fetch and of the screenshot service in the model
PageResponses ==
    {PageResponse("error", 0, NULL), PageResponse("titled", MaxImages, "http"),
     PageResponse("titled", 0, "data"), PageResponse("untitled", 0, NULL)}

\* GenericScraper.scrape
GenericScrape(u, apifyClient, r) ==
    IF r.fetch = "error"
    THEN Failure(<<"HTTP 500">>, 1, 1)
    ELSE Success([title |-> IF r.fetch = "titled" THEN "page" ELSE NULL,
                  description |-> NULL, bodyText |-> NULL,
                  images |-> SubSeq(PageImages, 1, r.nimages),
                  screenshot |-> IF apifyClient THEN r.screenshot ELSE NULL,
                  platformData |-> {<<"ogType", "website">>}], 1)

\* createScraperRegistry + getScraperForSourceType: the name of the scraper
\* (the Twitter and Instagram scrapers are registered only with a token)
getScraperForSourceType(sourceType, token) ==
    CASE sourceType = "twitter" /\ token -> "twitter"
      [] sourceType = "instagram" /\ token -> "instagram"
      [] sourceType = "youtube" -> "youtube"
      [] OTHER -> "generic"


(***************************************************************************)
(* The worker: media, analysis and the two writes of processCapture.       *)
(***************************************************************************)
NoMedia == [images |-> <<>>, screenshot |-> NULL]

\* an image entry without a url
NoUrl == 0

\* the object name of image i of a capture (below captures/<captureId>/),
\* i counted from 0
GcsPath(i) == <<"images", i - 1>>

NoPath == <<>>

\* the Cloud Storage URL of an uploaded object
PublicUrl(path) == <<"storage.googleapis.com", path>>

NoPublicUrl == <<>>

\* downloadAndUpload returns the public URL (TRUE) when the fetch answered
\* ok and file.save, file.makePublic went through; it throws otherwise
downloadAndUpload(fetched, saved) == fetched /\ saved

RECURSIVE ImagesLoop(_, _, _)
\* the images loop of processMedia from image i on: an entry without url is
\* skipped; downloaded[i] tells whether downloadAndUpload of image i
\* returned; when it threw the entry keeps the original URL only
ImagesLoop(images, downloaded, i) ==
    IF i > Len(images) THEN <<>>
    ELSE IF images[i] = NoUrl THEN ImagesLoop(images, downloaded, i + 1)
    ELSE <<IF downloaded[i]
           THEN [originalUrl |-> images[i], gcsPath |-> GcsPath(i),
                 publicUrl |-> PublicUrl(GcsPath(i))]
           ELSE [originalUrl |-> images[i], gcsPath |-> NoPath,
                 publicUrl |-> NoPublicUrl]>>
         \o ImagesLoop(images, downloaded, i + 1)

\* an images loop that leaves out the images that could not be stored
ProcessImagesKeepsStored(content, downloaded) ==
    SelectSeq(ImagesLoop(content.images, downloaded, 1),
              LAMBDA e : e.publicUrl # NoPublicUrl)

\* the images loop of processMedia
ProcessImages(content, downloaded) ==
    ImagesLoop(content.images, downloaded, 1)

\* the screenshot branch of processMedia
ProcessScreenshot(content, uploaded) ==
    CASE content.screenshot = NULL -> NULL
      [] content.screenshot = "data" -> IF uploaded THEN "stored" ELSE NULL
      [] OTHER -> IF uploaded THEN "stored" ELSE content.screenshot

\* processMedia
processMedia(content, downloaded, uploaded) ==
    [images |-> ProcessImages(content, downloaded),
     screenshot |-> ProcessScreenshot(content, uploaded)]

NoAnalysis == [summary |-> NULL, topics |-> <<>>, useCases |-> <<>>]

(***************************************************************************)
(* Texts are strings; a text that is undefined is NULL.                    *)
(***************************************************************************)
\* toLowerCase of one character
LowerChar(c) ==
    CASE c = "A" -> "a" [] c = "B" -> "b" [] c = "C" -> "c" [] c = "D" -> "d"
      [] c = "E" -> "e" [] c = "F" -> "f" [] c = "G" -> "g" [] c = "H" -> "h"
      [] c = "I" -> "i" [] c = "J" -> "j" [] c = "K" -> "k" [] c = "L" -> "l"
      [] c = "M" -> "m" [] c = "N" -> "n" [] c = "O" -> "o" [] c = "P" -> "p"
      [] c = "Q" -> "q" [] c = "R" -> "r" [] c = "S" -> "s" [] c = "T" -> "t"
      [] c = "U" -> "u" [] c = "V" -> "v" [] c = "W" -> "w" [] c = "X" -> "x"
      [] c = "Y" -> "y" [] c = "Z" -> "z" [] OTHER -> c

RECURSIVE LowerRange(_, _, _)
\* toLowerCase of the characters a..b of s
LowerRange(s, a, b) ==
    IF a > b THEN ""
    ELSE IF a = b THEN LowerChar(SubSeq(s, a, a))
    ELSE LowerRange(s, a, (a + b) \div 2)
            \o LowerRange(s, (a + b) \div 2 + 1, b)

\* String.prototype.toLowerCase
LowerCase(s) == LowerRange(s, 1, Len(s))

\* String.prototype.includes
StrIncludes(s, pat) ==
    \E i \in 1..(Len(s) - Len(pat) + 1) : SubSeq(s, i, i + Len(pat) - 1) = pat

\* s.slice(0, n)
Slice(s, n) == SubSeq(s, 1, IF Len(s) < n THEN Len(s) ELSE n)

\* value || ''
OrEmpty(s) == IF s = NULL THEN "" ELSE s

\* a value that || passes over: undefined or the empty string
Falsy(s) == s = NULL \/ s = ""

(***************************************************************************)
(* ContentAnalyzer.  The response of the text-generation call is [kind,    *)
(* text]: the call throws ("error"), answers without a text block          *)
(* ("no_text") or with a text ("text").  The text is described by what     *)
(* JSON.parse makes of it once the code fence is taken off: [json,         *)
(* summary, topics, useCases] with json "invalid" (JSON.parse throws),     *)
(* "null" (the value null) or "object" (a value with properties, some of   *)
(* which can be missing or of another type).                               *)
(***************************************************************************)
\* an array item: a string or a value of another type
Str(v) == [isString |-> TRUE, value |-> v]
Num(v) == [isString |-> FALSE, value |-> v]

\* a property that holds an array, and one that is missing or no array
Array(items) == [isArray |-> TRUE, items |-> items]
NotArray == [isArray |-> FALSE, items |-> <<>>]

JsonText(json, summary, topics, useCases) ==
    [json |-> json, summary |-> summary, topics |-> topics,
     useCases |-> useCases]

NoText == JsonText("invalid", NULL, NotArray, NotArray)

\* the outcome of a call: the value returned or the error thrown
Returned(result) == [raised |-> FALSE, error |-> NoError, result |-> result]
Raised(error) == [raised |-> TRUE, error |-> error, result |-> NoAnalysis]

\* the text-generation call throws
ErrorResponse == [kind |-> "error", text |-> NoText]

\* the text-generation call answers with the JSON object asked for
GoodResponse ==
    [kind |-> "text",
     text |-> JsonText("object", "summary", Array(<<Str("AI")>>),
                       Array(<<Str("Reference")>>))]

\* outcomes of the text-generation call in the invocations of the worker
AiResponses == {GoodResponse, ErrorResponse}

MaxSummaryLength == 500
MaxTopics == 5
MaxUseCases == 3

\* ContentAnalyzer.normalizeArray
normalizeArray(arr, maxLength) ==
    IF ~arr.isArray THEN <<>>
    ELSE LET strings == SelectSeq(arr.items, LAMBDA item : item.isString)
             n == IF Len(strings) < maxLength THEN Len(strings) ELSE maxLength
         IN  [i \in 1..n |-> strings[i].value]

\* ContentAnalyzer.parseResponse: a text that JSON.parse rejects and the
\* value null (reading a property of null throws) end in the catch, which
\* throws 'Invalid JSON response from Claude'
parseResponse(text) ==
    IF text.json \in {"invalid", "null"}
    THEN Raised(<<"Invalid JSON response from Claude">>)
    ELSE Returned([summary |-> Slice(OrEmpty(text.summary), MaxSummaryLength),
                   topics |-> normalizeArray(text.topics, MaxTopics),
                   useCases |-> normalizeArray(text.useCases, MaxUseCases)])

\* a text made of the title only
FallbackTextOfTitle(content) == LowerCase(OrEmpty(content.title))

\* the text on which getFallbackAnalysis looks for keywords
FallbackText(content) ==
    LowerCase(OrEmpty(content.title) \o " " \o OrEmpty(content.description)
                 \o " " \o OrEmpty(content.bodyText))

\* ContentAnalyzer.getFallbackAnalysis
getFallbackAnalysis(content) ==
    LET text == FallbackText(content)
        Has(kw) == StrIncludes(text, kw)
        topics ==
            (IF Has("ai") \/ Has("artificial intelligence")
                   \/ Has("machine learning") THEN <<"AI">> ELSE <<>>)
            \o (IF Has("design") \/ Has("ui") \/ Has("ux")
                THEN <<"Design">> ELSE <<>>)
            \o (IF Has("business") \/ Has("startup") \/ Has("company")
                THEN <<"Business">> ELSE <<>>)
            \o (IF Has("code") \/ Has("programming") \/ Has("developer")
                THEN <<"Technology">> ELSE <<>>)
    IN  [summary |-> IF ~Falsy(content.description) THEN content.description
                     ELSE IF ~Falsy(content.title) THEN content.title
                     ELSE "Content saved for later reference.",
         topics |-> IF topics = <<>> THEN <<"General">> ELSE topics,
         useCases |-> <<"Reference">>]

\* the try block of analyze: messages.create, the text block, parseResponse
TryAnalyze(content, response) ==
    IF response.kind = "error" THEN Raised(<<"API error">>)
    ELSE IF response.kind = "no_text"
    THEN Raised(<<"No text response from Claude">>)
    ELSE parseResponse(response.text)

\* an analyze whose catch block covers the call only, not the text block
\* and the parse
analyzeCatchesCallOnly(content, response) ==
    IF response.kind = "error" THEN Returned(getFallbackAnalysis(content))
    ELSE TryAnalyze(content, response)

\* an analyze without its catch block
analyzeWithoutCatch(content, response) == TryAnalyze(content, response)

\* ContentAnalyzer.analyze: what the try block returns, or the fallback
\* analysis when it threw
analyze(content, response) ==
    LET attempt == TryAnalyze(content, response)
    IN  IF attempt.raised THEN Returned(getFallbackAnalysis(content))
        ELSE attempt

\* an updateStatus that does not pass the message on
updateStatusDropsMessage(items, captureId, status, errorMessage, dbOk) ==
    IF ~dbOk \/ captureId \notin DOMAIN items THEN items
    ELSE [items EXCEPT ![captureId] =
             [@ EXCEPT !.status = status, !.error_message = NoError]]

\* an updateStatus that replaces the whole row
updateStatusReplacesRow(items, captureId, status, errorMessage, dbOk) ==
    IF ~dbOk \/ captureId \notin DOMAIN items THEN items
    ELSE [items EXCEPT ![captureId] =
             [@ EXCEPT !.status = status, !.error_message = errorMessage,
                       !.title = NULL, !.images = <<>>, !.summary = NULL,
                       !.topics = <<>>]]

\* updateStatus: update status, error_message (and processed_at for
\* complete) of row captureId; an error of the store is only logged.  The
\* time stamps are not modelled beyond processed_at being set or not.
updateStatus(items, captureId, status, errorMessage, dbOk) ==
    IF ~dbOk \/ captureId \notin DOMAIN items THEN items
    ELSE [items EXCEPT ![captureId] =
             [@ EXCEPT !.status = status,
                       !.error_message = errorMessage,
                       !.processed_at = IF status = "complete" THEN TRUE ELSE @]]

\* the platform_data object of saveToDatabase
PlatformData(content, media, notes) ==
    content.platformData
      \cup (IF notes # NULL THEN {<<"user_notes", notes>>} ELSE {})
      \cup (IF media.screenshot # NULL THEN {<<"screenshot", media.screenshot>>}
            ELSE {})

\* a saveToDatabase that leaves the analysis out
saveToDatabaseWithoutAnalysis(items, captureId, content, analysis, media, notes) ==
    IF captureId \notin DOMAIN items THEN items
    ELSE [items EXCEPT ![captureId] =
             [@ EXCEPT !.title = IF content.title # NULL THEN content.title ELSE @,
                       !.images = media.images,
                       !.platform_data = PlatformData(content, media, notes),
                       !.status = "complete",
                       !.processed_at = TRUE]]

\* saveToDatabase, when the store accepts the update: a key whose value is
\* undefined is not part of the request body, so its column keeps its value
saveToDatabase(items, captureId, content, analysis, media, notes) ==
    IF captureId \notin DOMAIN items THEN items
    ELSE [items EXCEPT ![captureId] =
             [@ EXCEPT !.title = IF content.title # NULL THEN content.title ELSE @,
                       !.images = media.images,
                       !.summary = analysis.summary,
                       !.topics = analysis.topics,
                       !.platform_data = PlatformData(content, media, notes),
                       !.status = "complete",
                       !.processed_at = TRUE]]


(***************************************************************************)
(* processCapture, one action per await.                                   *)
(***************************************************************************)
NoMessage == CaptureMessage(0, NotAUrl, NULL, NULL)

IdleWorker == [pc |-> "idle", msg |-> NoMessage, replay |-> FALSE,
               content |-> NoContent, media |-> NoMedia,
               analysis |-> NoAnalysis, error |-> NoError, threw |-> NULL,
               scraper |-> NULL, attempted |-> 0, reasons |-> 0]

\* the row that a replayed run leaves is remembered when the run ends
Remember(w, items) ==
    IF wk[w].replay
    THEN snapshot \cup {[msg |-> wk[w].msg, row |-> items[wk[w].msg.captureId]]}
    ELSE snapshot

\* the responses that an invocation receives: any, or the replayed ones
Drawn(w, field, responses) ==
    IF wk[w].replay THEN {replayed[field]} ELSE responses

\* the instances that are not running an invocation
Free == {w \in Workers : wk[w].pc = "idle"}

\* Pub/Sub pushes message m to a free instance (the instances are alike: the
\* first free one); with again the message is delivered once more later on
\* (at-least-once delivery)
Deliver(w, m, again, replay) ==
    /\ w \in Free /\ \A v \in Free : w <= v
    /\ BagIn(m, queue)
    /\ deliveries < MaxDeliveries
    /\ queue' = IF again THEN queue ELSE queue (-) SetToBag({m})
    /\ deliveries' = deliveries + 1
    /\ wk' = [wk EXCEPT ![w] = [IdleWorker EXCEPT !.pc = "start", !.msg = m,
                                   !.replay = replay]]
    /\ UNCHANGED <<content_items, req, scriptRuns, scriptItems, apifyToken,
                   replayed, snapshot, call>>

\* the delivery of a CloudEvent without message data: logged, the function
\* returns
ProcessNoData(w) ==
    /\ w \in Free /\ \A v \in Free : w <= v
    /\ deliveries < MaxDeliveries
    /\ deliveries' = deliveries + 1
    /\ UNCHANGED <<content_items, queue, req, wk, scriptRuns, scriptItems,
                   apifyToken, replayed, snapshot, call>>

\* await updateStatus(captureId, 'processing')
StartProcessing(w, dbOk) ==
    /\ wk[w].pc = "start"
    /\ content_items' = updateStatus(content_items, wk[w].msg.captureId,
                                     "processing", NoError, dbOk)
    /\ wk' = [wk EXCEPT ![w].pc = "scrape"]
    /\ UNCHANGED <<queue, req, deliveries, scriptRuns, scriptItems, apifyToken,
                   replayed, snapshot, call>>

\* the result of scraper.scrape(url) for the scraper of the source type
ScrapeResult(msg, token, tw, page) ==
    IF getScraperForSourceType(msg.sourceType, token) = "twitter"
    THEN TwitterScrape(msg.url, token, tw)
    ELSE GenericScrape(msg.url, token, page)

\* getScraperForSourceType, await scraper.scrape(url); a throw goes to catch
Scrape(w, tw, page) ==
    /\ wk[w].pc = "scrape"
    /\ LET result == ScrapeResult(wk[w].msg, apifyToken, tw, page)
           scraper == getScraperForSourceType(wk[w].msg.sourceType, apifyToken)
       IN  wk' = [wk EXCEPT ![w] =
                    [@ EXCEPT !.pc = IF result.ok THEN "media" ELSE "catch",
                              !.content = result.content,
                              !.error = result.error,
                              !.threw = IF result.ok THEN NULL ELSE "scrape",
                              !.scraper = scraper,
                              !.attempted = result.attempted,
                              !.reasons = result.reasons]]
    /\ UNCHANGED <<content_items, queue, req, deliveries, scriptRuns,
                   scriptItems, apifyToken, replayed, snapshot, call>>

\* await processMedia(captureId, content)
Media(w, downloaded, uploaded) ==
    /\ wk[w].pc = "media"
    /\ wk' = [wk EXCEPT ![w].pc = "analyze",
                        ![w].media = processMedia(wk[w].content, downloaded,
                                                  uploaded)]
    /\ UNCHANGED <<content_items, queue, req, deliveries, scriptRuns,
                   scriptItems, apifyToken, replayed, snapshot, call>>

\* await analyzer.analyze(content, sourceType, url); a throw goes to catch
Analyze(w, ai) ==
    /\ wk[w].pc = "analyze"
    /\ \E outcome \in {analyze(wk[w].content, ai)} :
           wk' = [wk EXCEPT ![w] =
                    [@ EXCEPT !.pc = IF outcome.raised THEN "catch" ELSE "save",
                              !.analysis = outcome.result,
                              !.error = IF outcome.raised THEN outcome.error
                                        ELSE @,
                              !.threw = IF outcome.raised THEN "analyze"
                                        ELSE @]]
    /\ UNCHANGED <<content_items, queue, req, deliveries, scriptRuns,
                   scriptItems, apifyToken, replayed, snapshot, call>>

\* await saveToDatabase(...): the update, or the throw when the store fails
Save(w, dbOk) ==
    /\ wk[w].pc = "save"
    /\ IF dbOk
       THEN /\ content_items' = saveToDatabase(content_items,
                                    wk[w].msg.captureId, wk[w].content,
                                    wk[w].analysis, wk[w].media,
                                    wk[w].msg.notes)
            /\ wk' = [wk EXCEPT ![w] = IdleWorker]
            /\ snapshot' = Remember(w, content_items')
       ELSE /\ wk' = [wk EXCEPT ![w].pc = "catch",
                                ![w].error = <<"Database save failed">>,
                                ![w].threw = "save"]
            /\ UNCHANGED <<content_items, snapshot>>
    /\ UNCHANGED <<queue, req, deliveries, scriptRuns, scriptItems, apifyToken,
                   replayed, call>>

\* a catch block that swallows the error
CatchReturns == "returned"

\* how the catch block ends: the error is thrown again
CatchOutcome == "raised"

\* the catch block: await updateStatus(captureId, 'failed', errorMessage),
\* throw error; Pub/Sub retries the message of an invocation that threw: the
\* message is in the queue again
Catch(w, dbOk) ==
    /\ wk[w].pc = "catch"
    /\ content_items' = updateStatus(content_items, wk[w].msg.captureId,
                                     "failed", wk[w].error, dbOk)
    /\ wk' = [wk EXCEPT ![w] = IdleWorker]
    /\ snapshot' = Remember(w, content_items')
    /\ queue' = IF CatchOutcome = "raised"
                THEN queue (+) SetToBag({wk[w].msg}) ELSE queue
    /\ UNCHANGED <<req, deliveries, scriptRuns, scriptItems, apifyToken,
                   replayed, call>>

(***************************************************************************)
(* scripts/process-pending.ts                                              *)
(***************************************************************************)
RECURSIVE PendingFrom(_, _)
\* select id, source_url, source_type, slack_context_text
\*   where status = 'pending' order by created_at
PendingFrom(items, i) ==
    IF i > Len(items) THEN <<>>
    ELSE (IF items[i].status = "pending"
          THEN <<[id |-> i, source_url |-> items[i].source_url,
                  source_type |-> items[i].source_type]>>
          ELSE <<>>) \o PendingFrom(items, i + 1)

\* processPending: the query
ProcessPendingSelect ==
    /\ scriptRuns < MaxScriptRuns
    /\ scriptItems = <<>>
    /\ scriptRuns' = scriptRuns + 1
    /\ scriptItems' = PendingFrom(content_items, 1)
    /\ UNCHANGED <<content_items, queue, req, wk, deliveries, apifyToken,
                   replayed, snapshot, call>>

\* processPending: one turn of the loop, await topic.publishMessage
ProcessPendingPublish(published) ==
    /\ scriptItems # <<>>
    /\ LET item == Head(scriptItems)
           message == CaptureMessage(item.id, item.source_url,
                                     item.source_type, NULL)
       IN  queue' = IF published THEN queue (+) SetToBag({message}) ELSE queue
    /\ scriptItems' = Tail(scriptItems)
    /\ UNCHANGED <<content_items, req, wk, deliveries, scriptRuns, apifyToken,
                   replayed, snapshot, call>>


(***************************************************************************)
(* The functions of the pipeline applied to inputs: call holds the name of *)
(* the function, its input and its result.                                 *)
(***************************************************************************)
pipeline == <<content_items, queue, req, wk, deliveries, scriptRuns,
              scriptItems, apifyToken, replayed, snapshot>>

\* what the three actors give to one call of fetchFromApify
ApifyInputs == [1..NumActors -> ActorTexts \cup {"throw", "empty"}]

\* fetchFromApify on what the actors give, and TwitterScraper.scrape of a
\* tweet URL whose FxTwitter and VxTwitter requests have failed
CallFetchFromApify(actors) ==
    /\ call = NoCall
    /\ call' = [fn |-> "fetchFromApify", actors |-> actors,
                result |-> fetchFromApify(actors),
                scrape |-> TwitterScrape(TweetUrl, TRUE,
                              [fx |-> "fail", vx |-> "fail", actors |-> actors])]
    /\ UNCHANGED pipeline

\* TwitterScraper.scrape of a URL for every outcome of the FxTwitter and
\* VxTwitter requests and of the three actors, with and without Apify client
CallTwitterScrape(u, client, r) ==
    /\ call = NoCall
    /\ call' = [fn |-> "TwitterScrape", url |-> u, client |-> client,
                responses |-> r, result |-> TwitterScrape(u, client, r)]
    /\ UNCHANGED pipeline

\* query parameter names: the tracking names of validateUrl and other names
ParamNames == TRACKING_PARAMS \cup {"utm_id", "page"}

\* URLs without the parameter under test
PlainUrls ==
    {Url("https:", hostname, pathname, search) :
        hostname \in {"example.com", "Example.com"},
        pathname \in {<<"">>, <<"a">>, <<"a", "">>},
        search \in {<<>>, <<Param("id", "7")>>}}

\* the URL u with the query parameter k=v put first or last
WithParam(u, k, v, first) ==
    [u EXCEPT !.search = IF first THEN <<Param(k, v)>> \o @
                                  ELSE Append(@, Param(k, v))]

\* validateUrl on a URL and on the same URL with one more query parameter
CallValidateUrl(u, k, v, first) ==
    /\ call = NoCall
    /\ call' = [fn |-> "validateUrl", url |-> u, name |-> k,
                tracked |-> WithParam(u, k, v, first),
                result |-> validateUrl(u),
                trackedResult |-> validateUrl(WithParam(u, k, v, first))]
    /\ UNCHANGED pipeline

\* URLs as they are submitted: with and without trailing slashes, tracking
\* parameters and upper-case letters in the hostname
ResubmittedUrls ==
    {Url(protocol, hostname, pathname, search) :
        protocol \in {"https:", "ftp:"},
        hostname \in {"example.com", "Example.com"},
        pathname \in {<<"">>, <<"a">>, <<"a", "">>, <<"a", "", "">>, <<"", "">>},
        search \in {<<>>, <<Param("id", "7")>>, <<Param("utm_source", "1")>>,
                    <<Param("id", "7"), Param("t", "2")>>}}

\* the capture route on a URL and then on the URL that it stored for it:
\* validateUrl(url), and validateUrl of the normalized URL
CallValidateUrlAgain(u) ==
    /\ call = NoCall
    /\ call' = [fn |-> "validateUrlAgain", url |-> u,
                result |-> validateUrl(u),
                again |-> validateUrl(validateUrl(u).normalized)]
    /\ UNCHANGED pipeline

\* Instagram: parsePost on the first item of the actor's dataset. A URL of
\* the post is a number, NoUrl an absent one.
MaxChildren == 2

RECURSIVE AdditionalImages(_, _, _)
AdditionalImages(images, listed, i) ==
    IF i > Len(listed) THEN images
    ELSE IF \E k \in 1..Len(images) : images[k] = listed[i]
         THEN AdditionalImages(images, listed, i + 1)
         ELSE AdditionalImages(Append(images, listed[i]), listed, i + 1)

parsePost(post) ==
    LET mainImage == IF post.displayUrl # NoUrl THEN <<post.displayUrl>> ELSE <<>>
        imageChildren == SelectSeq(post.childPosts,
                            LAMBDA child : child.type = "Image" /\ child.displayUrl # NoUrl)
        carouselImages == [k \in 1..Len(imageChildren) |-> imageChildren[k].displayUrl]
        mainVideo == IF post.videoUrl # NoUrl THEN <<post.videoUrl>> ELSE <<>>
        videoChildren == SelectSeq(post.childPosts,
                            LAMBDA child : child.type = "Video" /\ child.videoUrl # NoUrl)
        carouselVideos == [k \in 1..Len(videoChildren) |-> videoChildren[k].videoUrl]
    IN  [images |-> AdditionalImages(mainImage \o carouselImages, post.images, 1),
         videos |-> mainVideo \o carouselVideos]

InstagramPosts ==
    LET Child == [type : {"Image", "Video"}, displayUrl : {NoUrl, 1}, videoUrl : {NoUrl, 1}]
    IN  [displayUrl : {NoUrl, 1, 2}, videoUrl : {NoUrl, 1},
         childPosts : UNION {[1..n -> Child] : n \in 0..MaxChildren},
         images : {<<>>, <<1>>, <<2, 1>>, <<2, 2>>}]

CallParsePost(post) ==
    /\ call = NoCall
    /\ call' = [fn |-> "parsePost", post |-> post, result |-> parsePost(post)]
    /\ UNCHANGED pipeline

\* GenericScraper.scrape, the images of the page.  candidates are the contents
\* of the meta and link tags in the order of the code (NULL: tag absent), imgs
\* the URL of each img element in document order, option is options.maxImages
\* (0: not given).  URLs are strings, relative ones start with "/".
MaxMetaTags == 3
MaxImgTags == 2
DefaultMaxImages == 10

extractImages(candidates, imgs, option) ==
    LET maxImages == IF option = 0 THEN DefaultMaxImages ELSE option
        resolveUrl(urlStr) ==
            IF Slice(urlStr, 4) = "http" THEN urlStr ELSE "https://page.test" \o urlStr
        EndsWith(urlStr, suffix) ==
            /\ Len(urlStr) >= Len(suffix)
            /\ SubSeq(urlStr, Len(urlStr) - Len(suffix) + 1, Len(urlStr)) = suffix
        isValidImageUrl(urlStr) ==
            /\ ~StrIncludes(urlStr, "data:")
            /\ ~StrIncludes(urlStr, "tracking")
            /\ ~StrIncludes(urlStr, "pixel")
            /\ ~StrIncludes(urlStr, "1x1")
            /\ ~EndsWith(LowerCase(urlStr), ".svg")
            /\ ~EndsWith(LowerCase(urlStr), ".gif")
        present == SelectSeq(candidates, LAMBDA candidate : ~Falsy(candidate))
        metaImageCandidates == [k \in 1..Len(present) |-> resolveUrl(present[k])]
        RECURSIVE MetaLoop(_, _, _)
        MetaLoop(images, seenUrls, k) ==
            IF k > Len(metaImageCandidates) THEN [images |-> images, seenUrls |-> seenUrls]
            ELSE IF metaImageCandidates[k] \in seenUrls
                 THEN MetaLoop(images, seenUrls, k + 1)
                 ELSE MetaLoop(Append(images, metaImageCandidates[k]),
                               seenUrls \cup {metaImageCandidates[k]}, k + 1)
        RECURSIVE ImgLoop(_, _, _)
        ImgLoop(images, seenUrls, k) ==
            IF k > Len(imgs) \/ Len(images) >= maxImages THEN images
            ELSE IF ~Falsy(imgs[k]) /\ imgs[k] \notin seenUrls /\ isValidImageUrl(imgs[k])
                 THEN ImgLoop(Append(images, resolveUrl(imgs[k])),
                              seenUrls \cup {imgs[k]}, k + 1)
                 ELSE ImgLoop(images, seenUrls, k + 1)
        meta == MetaLoop(<<>>, {}, 1)
    IN  ImgLoop(meta.images, meta.seenUrls, 1)

CallExtractImages(candidates, imgs, option) ==
    /\ call = NoCall
    /\ call' = [fn |-> "extractImages", candidates |-> candidates, imgs |-> imgs,
                maxImages |-> IF option = 0 THEN DefaultMaxImages ELSE option,
                result |-> extractImages(candidates, imgs, option)]
    /\ UNCHANGED pipeline

\* YouTubeScraper.  The response of the oEmbed endpoint is [kind, data] with
\* kind "throws" (network error), "not ok", "bad json" or "ok"; the response
\* of the page fetch is [kind, page] with kind "throws" (network error or
\* the abort after 15 s), "not ok" or "ok", page the contents of its tags.
\* A value that a function returns is [threw, value].
Undefined == [defined |-> FALSE, title |-> NULL, author_name |-> NULL, thumbnail_url |-> NULL]

\* a || b || c
FirstTruthy(values) ==
    IF \E k \in 1..Len(values) : ~Falsy(values[k])
    THEN values[CHOOSE k \in 1..Len(values) :
                   ~Falsy(values[k]) /\ \A j \in 1..(k - 1) : Falsy(values[j])]
    ELSE NULL

\* url.replace(/&amp;/g, '&'): a parameter after the first one that was
\* written with &amp; loses the "amp;" in front of its name
normalizeUrl(u) ==
    [u EXCEPT !.search =
        [i \in 1..Len(u.search) |->
            IF i > 1 /\ Slice(u.search[i].k, 4) = "amp;"
            THEN Param(SubSeq(u.search[i].k, 5, Len(u.search[i].k)), u.search[i].v)
            ELSE u.search[i]]]

\* the id of the video in the embed URL https://www.youtube.com/embed/<id>,
\* NULL for undefined
getEmbedUrl(u) ==
    LET RECURSIVE Join(_, _)
        Join(path, k) == IF k = Len(path) THEN path[k]
                         ELSE path[k] \o "/" \o Join(path, k + 1)
        vs == SelectSeq(u.search, LAMBDA p : p.k = "v")
    IN  IF StrIncludes(u.hostname, "youtu.be")
        THEN IF Join(u.pathname, 1) # "" THEN Join(u.pathname, 1) ELSE NULL
        ELSE IF vs # <<>> /\ vs[1].v # "" THEN vs[1].v
        ELSE IF u.pathname[1] = "shorts" /\ Len(u.pathname) >= 2
             THEN IF u.pathname[2] # "" THEN u.pathname[2] ELSE NULL
        ELSE NULL

fetchOEmbed(response) ==
    [threw |-> FALSE,
     value |-> IF response.kind = "ok" THEN response.data ELSE Undefined]

OpenGraphOf(page) ==
    [title |-> FirstTruthy(<<page.ogTitle, page.title>>),
     description |-> FirstTruthy(<<page.ogDescription, page.description>>),
     image |-> FirstTruthy(<<page.ogImage, page.secureImage, page.twitterImage>>),
     author |-> FirstTruthy(<<page.author, page.siteName>>)]

fetchOpenGraphWithoutCatch(response) ==
    [threw |-> response.kind = "throws",
     value |-> IF response.kind = "ok" THEN OpenGraphOf(response.page)
               ELSE [title |-> NULL, description |-> NULL, image |-> NULL, author |-> NULL]]

fetchOpenGraph(response) ==
    [threw |-> FALSE,
     value |-> IF response.kind = "ok" THEN OpenGraphOf(response.page)
               ELSE [title |-> NULL, description |-> NULL, image |-> NULL, author |-> NULL]]

YouTubeScrape(url, oembedResponse, pageResponse) ==
    LET normalizedUrl == normalizeUrl(url)
        embedUrl == getEmbedUrl(normalizedUrl)
        fetchedOEmbed == fetchOEmbed(oembedResponse)
        fetchedMeta == fetchOpenGraph(pageResponse)
        oembed == fetchedOEmbed.value
        ogMeta == fetchedMeta.value
        thumbnailUrl == FirstTruthy(<<ogMeta.image, oembed.thumbnail_url>>)
    IN  IF fetchedOEmbed.threw \/ fetchedMeta.threw
        THEN [ok |-> FALSE, title |-> NULL, description |-> NULL, authorName |-> NULL,
              images |-> <<>>, videos |-> <<>>, oembed |-> Undefined]
        ELSE [ok |-> TRUE,
              title |-> FirstTruthy(<<ogMeta.title, oembed.title>>),
              description |-> ogMeta.description,
              authorName |-> FirstTruthy(<<ogMeta.author, oembed.author_name>>),
              images |-> IF Falsy(thumbnailUrl) THEN <<>> ELSE <<thumbnailUrl>>,
              videos |-> IF embedUrl = NULL THEN <<>>
                         ELSE <<[url |-> embedUrl, thumbnail |-> thumbnailUrl]>>,
              oembed |-> oembed]

\* the scrapes of the model: the URL of the video, the answer of the oEmbed
\* endpoint and the answer of the page fetch of each
YouTubeInputs ==
    LET Data == [defined : {TRUE}, title : {NULL, "oembed title"},
                  author_name : {NULL, "channel"},
                  thumbnail_url : {NULL, "https://i.ytimg.test/hq.jpg"}]
        OEmbedResponses ==
            [kind : {"ok"}, data : Data]
               \cup [kind : {"throws", "not ok", "bad json"}, data : {Undefined}]
        NoPage ==
            [ogTitle |-> NULL, title |-> "", ogDescription |-> NULL,
             description |-> NULL, ogImage |-> NULL, secureImage |-> NULL,
             twitterImage |-> NULL, author |-> NULL, siteName |-> NULL]
        PageFetches ==
            [kind : {"ok"},
             page : {NoPage,
                     [NoPage EXCEPT !.title = "Video - YouTube",
                                    !.twitterImage = "https://i.ytimg.test/max.jpg"],
                     [NoPage EXCEPT !.ogTitle = "Video", !.title = "Video - YouTube",
                                    !.ogDescription = "about",
                                    !.ogImage = "https://i.ytimg.test/og.jpg",
                                    !.siteName = "YouTube"]}]
               \cup [kind : {"throws", "not ok"}, page : {NoPage}]
        YouTubeUrls ==
            {Url("https:", "www.youtube.com", <<"watch">>, <<Param("v", "abc")>>),
             Url("https:", "www.youtube.com", <<"watch">>,
                 <<Param("t", "1"), Param("amp;v", "abc")>>),
             Url("https:", "youtu.be", <<"abc">>, <<>>),
             Url("https:", "www.youtube.com", <<"shorts", "abc">>, <<>>),
             Url("https:", "www.youtube.com", <<"channel">>, <<>>)}
    IN  [url : YouTubeUrls, oembed : OEmbedResponses, page : PageFetches]

CallYouTubeScrape(url, oembedResponse, pageResponse) ==
    /\ call = NoCall
    /\ call' = [fn |-> "YouTubeScrape", url |-> url, oembed |-> oembedResponse,
                page |-> pageResponse,
                result |-> YouTubeScrape(url, oembedResponse, pageResponse)]
    /\ UNCHANGED pipeline

\* URLs with the names of platforms in the hostname, the path or the query
ClassifiedUrls ==
    {Url("https:", hostname, pathname, search) :
        hostname \in {"example.com", "x.com", "netflix.com", "www.youtube.com"},
        pathname \in {<<"a">>, <<"x.com">>, <<"share", "youtu.be">>},
        search \in {<<>>, <<Param("via", "instagram.com")>>}}

\* detectSourceType on two URLs with the same hostname
CallDetectSourceType(u, v) ==
    /\ call = NoCall
    /\ u.hostname = v.hostname
    /\ call' = [fn |-> "detectSourceType", url |-> u, other |-> v,
                result |-> detectSourceType(u),
                otherResult |-> detectSourceType(v)]
    /\ UNCHANGED pipeline

\* images and outcomes of the media step in the model
MaxAssets == 2

\* the images of an extracted content: URLs 1 and 2, or an entry without url
ImageLists == UNION {[1..n -> {NoUrl, 1, 2}] : n \in 0..MaxAssets}

\* processMedia on the images and the screenshot of a content, and the
\* images column that saveToDatabase writes from its result; fetched[i] and
\* saved[i] are the outcomes of the download and of the upload of image i
CallProcessMedia(images, fetched, saved, screenshot, uploaded) ==
    /\ call = NoCall
    /\ LET content == [NoContent EXCEPT !.images = images,
                                        !.screenshot = screenshot]
           downloaded == [i \in 1..MaxAssets |->
                             downloadAndUpload(fetched[i], saved[i])]
           media == processMedia(content, downloaded, uploaded)
       IN  call' = [fn |-> "processMedia", images |-> images,
                    fetched |-> fetched, saved |-> saved, result |-> media,
                    persisted |->
                        saveToDatabase(<<NewRow(WebUrl, "web", NULL)>>, 1,
                            content, NoAnalysis, media, NULL)[1].images]
    /\ UNCHANGED pipeline

RECURSIVE Times(_, _)
\* the text s written n times
Times(s, n) == IF n = 0 THEN "" ELSE s \o Times(s, n - 1)

\* a text of 510 characters
LongText == Times("long text ", 51)

\* the texts of the contents that are analyzed in the model
AnalyzedContents ==
    {[NoContent EXCEPT !.title = title, !.description = description,
                       !.bodyText = bodyText] :
        title \in {NULL, "Machine", "UI design for a startup"},
        description \in {NULL, "", "learning to code",
                         "Notes on Machine Learning", LongText},
        bodyText \in {NULL, "We maintain the site"}}

\* the outcomes of the text-generation call in the model
AnalyzerResponses ==
    AiResponses \cup
    {[kind |-> "no_text", text |-> NoText],
     [kind |-> "text", text |-> NoText],
     [kind |-> "text", text |-> JsonText("null", NULL, NotArray, NotArray)],
     [kind |-> "text", text |-> JsonText("object", NULL, NotArray, NotArray)],
     [kind |-> "text",
      text |-> JsonText("object", "summary", Array(<<Num("7")>>), Array(<<>>))],
     [kind |-> "text",
      text |-> JsonText("object", LongText,
                  Array(<<Str("AI"), Num("7"), Str("Design"), Str("Business"),
                          Str("Technology"), Str("Product"), Str("Culture")>>),
                  Array(<<Str("Reference"), Str("Inspiration"),
                          Str("Tutorial"), Str("Research")>>))]}

\* analyzer.analyze on a content and an outcome of the text-generation call
CallAnalyze(content, response) ==
    /\ call = NoCall
    /\ call' = [fn |-> "analyze", content |-> content, response |-> response,
                outcome |-> analyze(content, response)]
    /\ UNCHANGED pipeline

\* the caller has the result: the next function can be applied
Return ==
    /\ call # NoCall
    /\ call' = NoCall
    /\ UNCHANGED pipeline

(***************************************************************************)
(* Specifications.                                                         *)
(***************************************************************************)
\* responses that no run replays
NoReplay ==
    [tw |-> [fx |-> "ok", vx |-> "ok", actors |-> [i \in 1..NumActors |-> "throw"]],
     page |-> PageResponse("error", 0, NULL),
     downloaded |-> [i \in 1..MaxImages |-> TRUE], uploaded |-> TRUE,
     ai |-> GoodResponse, dbStart |-> TRUE, dbSave |-> TRUE, dbFailed |-> TRUE]

Init ==
    /\ content_items = <<>>
    /\ queue = EmptyBag
    /\ req = [c \in Clients |-> IdleReq]
    /\ wk = [w \in Workers |-> IdleWorker]
    /\ deliveries = 0
    /\ scriptRuns = 0
    /\ scriptItems = <<>>
    /\ apifyToken \in BOOLEAN
    /\ replayed = NoReplay
    /\ snapshot = {}
    /\ call = NoCall

\* the responses of the external services that the invocations of a
\* specification can receive: all of the model, or a few of them
AllResponses ==
    [tw |-> TwitterResponses, page |-> PageResponses,
     downloaded |-> [1..MaxImages -> BOOLEAN], uploaded |-> BOOLEAN,
     ai |-> AiResponses, dbStart |-> BOOLEAN, dbSave |-> BOOLEAN,
     dbFailed |-> BOOLEAN]

FewResponses ==
    [tw |-> {r \in TwitterResponses :
                r.vx = "fail" /\ r.actors = [i \in 1..NumActors |-> "throw"]},
     page |-> {PageResponse("error", 0, NULL),
               PageResponse("titled", MaxImages, "http")},
     downloaded |-> {[i \in 1..MaxImages |-> i # 1]}, uploaded |-> {FALSE},
     ai |-> AiResponses, dbStart |-> BOOLEAN, dbSave |-> BOOLEAN,
     dbFailed |-> BOOLEAN]

\* the steps of an invocation of processCapture after its delivery
Process(w, R) ==
    \/ \E dbOk \in Drawn(w, "dbStart", R.dbStart) : StartProcessing(w, dbOk)
    \/ \E tw \in Drawn(w, "tw", R.tw) :
           /\ getScraperForSourceType(wk[w].msg.sourceType, apifyToken) = "twitter"
           /\ Scrape(w, tw, replayed.page)
    \/ \E page \in Drawn(w, "page", R.page) :
           /\ getScraperForSourceType(wk[w].msg.sourceType, apifyToken) # "twitter"
           /\ Scrape(w, replayed.tw, page)
    \/ \E downloaded \in Drawn(w, "downloaded", R.downloaded),
          uploaded \in Drawn(w, "uploaded", R.uploaded) :
           Media(w, downloaded, uploaded)
    \/ \E ai \in Drawn(w, "ai", R.ai) : Analyze(w, ai)
    \/ \E dbOk \in Drawn(w, "dbSave", R.dbSave) : Save(w, dbOk)
    \/ \E dbOk \in Drawn(w, "dbFailed", R.dbFailed) : Catch(w, dbOk)

\* one capture from its submission on: the endpoint, the queue and
\* concurrent invocations of the worker
Next ==
    \/ Post(1, AllRequests)
    \/ \E w \in Workers, m \in BagToSet(queue), again \in BOOLEAN :
           Deliver(w, m, again, FALSE)
    \/ \E w \in Workers : ProcessNoData(w)
    \/ \E w \in Workers : Process(w, FewResponses)

Spec == Init /\ [][Next]_vars

\* the endpoint answers, the queue delivers the messages that are published
\* and the workers run
Fairness ==
    /\ WF_vars(Post(1, AllRequests))
    /\ WF_vars(\E w \in Workers, m \in BagToSet(queue) :
                   Deliver(w, m, FALSE, FALSE))
    /\ \A w \in Workers : WF_vars(Process(w, FewResponses))

SpecLive == Init /\ [][Next]_vars /\ Fairness

\* the same with an operator who runs the process-pending script
NextMaintained ==
    \/ Post(1, FewRequests)
    \/ \E w \in Workers, m \in BagToSet(queue), again \in BOOLEAN :
           Deliver(w, m, again, FALSE)
    \/ \E w \in Workers : ProcessNoData(w)
    \/ \E w \in Workers : Process(w, FewResponses)
    \/ ProcessPendingSelect
    \/ \E published \in BOOLEAN : ProcessPendingPublish(published)

SpecMaintained == Init /\ [][NextMaintained]_vars

\* concurrent submissions to the capture endpoint
NextCapture == \E c \in Clients : Post(c, AllRequests)

SpecCapture == Init /\ [][NextCapture]_vars


\* the runs of one capture one after the other, some of them replayed: a
\* replayed run gets the responses chosen at the start (the record store
\* accepts the writes of a replayed run)
ReplayedResponses ==
    [tw : FewResponses.tw, page : FewResponses.page,
     downloaded : FewResponses.downloaded, uploaded : FewResponses.uploaded,
     ai : AiResponses, dbStart : {TRUE}, dbSave : {TRUE}, dbFailed : {TRUE}]

InitRerun ==
    /\ content_items = <<>>
    /\ queue = EmptyBag
    /\ req = [c \in Clients |-> IdleReq]
    /\ wk = [w \in Workers |-> IdleWorker]
    /\ deliveries = 0
    /\ scriptRuns = 0
    /\ scriptItems = <<>>
    /\ apifyToken \in BOOLEAN
    /\ replayed \in ReplayedResponses
    /\ snapshot = {}
    /\ call = NoCall

NextRerun ==
    \/ Post(1, AllRequests)
    \/ \E m \in BagToSet(queue), again \in BOOLEAN, replay \in BOOLEAN :
           /\ Free = Workers
           /\ Deliver(1, m, again, replay)
    \/ Process(1, AllResponses)

SpecRerun == InitRerun /\ [][NextRerun]_vars

\* the invocations of one capture, one at a time, with every outcome of the
\* steps after the scrape: each image stored or not, the screenshot stored
\* or not, every outcome of the text-generation call, the final write
\* accepted or not
DegradedResponses ==
    [tw |-> FewResponses.tw, page |-> PageResponses,
     downloaded |-> [1..MaxImages -> BOOLEAN], uploaded |-> BOOLEAN,
     ai |-> AnalyzerResponses, dbStart |-> {TRUE}, dbSave |-> BOOLEAN,
     dbFailed |-> {TRUE}]

NextDegraded ==
    \/ Post(1, FewRequests)
    \/ \E m \in BagToSet(queue), again \in BOOLEAN :
           /\ Free = Workers
           /\ Deliver(1, m, again, FALSE)
    \/ Process(1, DegradedResponses)

SpecDegraded == Init /\ [][NextDegraded]_vars

\* overlapping invocations of a capture: the deliveries of its message that
\* Pub/Sub makes while the capture is not complete
NextOverlap ==
    \/ Post(1, FewRequests)
    \/ \E w \in Workers, m \in BagToSet(queue), again \in BOOLEAN :
           /\ \A i \in Ids : i = m.captureId
                                => content_items[i].status # "complete"
           /\ Deliver(w, m, again, FALSE)
    \/ \E w \in Workers : Process(w, FewResponses)

SpecOverlap == Init /\ [][NextOverlap]_vars

(***************************************************************************)
(* The search route.  The answer of the intent call is [kind, value]: kind *)
(* "error" (the call throws), "no text" (no text block), "not json" (a     *)
(* text that JSON.parse rejects) or "json", with value what JSON.parse     *)
(* returns: an object whose properties are Array(items) or, when missing,  *)
(* NotArray.  The store is [ok, rows]: the complete rows, newest first.    *)
(***************************************************************************)
NoIntent ==
    [keywords |-> NotArray, topics |-> NotArray, useCases |-> NotArray,
     sourceTypes |-> NotArray, contentTypes |-> NotArray, searchStrategy |-> NULL]

\* query.split(' ').filter(w => w.length > 2)
QueryTokens(query) ==
    LET RECURSIVE Split(_, _, _)
        Split(i, word, words) ==
            IF i > Len(query) THEN Append(words, word)
            ELSE IF SubSeq(query, i, i) = " " THEN Split(i + 1, "", Append(words, word))
            ELSE Split(i + 1, word \o SubSeq(query, i, i), words)
    IN  SelectSeq(Split(1, "", <<>>), LAMBDA w : Len(w) > 2)

extractSearchIntent(query, response) ==
    IF response.kind = "json" THEN response.value
    ELSE [keywords |-> Array(QueryTokens(query)), topics |-> Array(<<>>),
          useCases |-> Array(<<>>), sourceTypes |-> Array(<<>>),
          contentTypes |-> Array(<<>>), searchStrategy |-> "broad"]

\* field?.toLowerCase().includes(keyword), and a column ilike %keyword%
FieldIncludes(field, keyword) ==
    field # NULL /\ StrIncludes(LowerCase(field), LowerCase(keyword))

\* the relevance score of the item at position index (from 0) of the page
Score(item, index, intent) ==
    LET RECURSIVE Boosts(_)
        Boosts(k) ==
            IF k > Len(intent.keywords.items) THEN 0
            ELSE (IF FieldIncludes(item.title, intent.keywords.items[k]) THEN 25 ELSE 0)
               + (IF FieldIncludes(item.description, intent.keywords.items[k]) THEN 15 ELSE 0)
               + (IF FieldIncludes(item.summary, intent.keywords.items[k]) THEN 10 ELSE 0)
               + Boosts(k + 1)
        matchingTopics ==
            SelectSeq(intent.topics.items,
                      LAMBDA t : \E n \in 1..Len(item.topics) :
                                    LowerCase(item.topics[n]) = LowerCase(t))
    IN  100 - index + Boosts(1)
          + (IF Len(intent.topics.items) > 0 THEN Len(matchingTopics) * 5 ELSE 0)

SearchFailed ==
    [status |-> 500, items |-> <<>>, total |-> 0, totalPages |-> 0, intent |-> NoIntent]

\* POST of the search route; an item of the answer is [id, score, index]
SearchPost(query, response, store, page, limit) ==
    LET intent == extractSearchIntent(query, response)
        offset == (page - 1) * limit
        Among(value, list) == \E n \in 1..Len(list) : list[n] = value
        Matches(row) ==
            /\ Len(intent.keywords.items) > 0 =>
                  \E k \in 1..Len(intent.keywords.items) :
                      \/ FieldIncludes(row.description, intent.keywords.items[k])
                      \/ FieldIncludes(row.summary, intent.keywords.items[k])
                      \/ FieldIncludes(row.title, intent.keywords.items[k])
                      \/ FieldIncludes(row.body_text, intent.keywords.items[k])
            /\ Len(intent.sourceTypes.items) > 0 =>
                  Among(row.source_type, intent.sourceTypes.items)
            /\ Len(intent.contentTypes.items) > 0 =>
                  Among(row.content_type, intent.contentTypes.items)
        matched == SelectSeq(store.rows, Matches)
        last == IF offset + limit < Len(matched) THEN offset + limit ELSE Len(matched)
        textResults == IF store.ok THEN SubSeq(matched, offset + 1, last) ELSE <<>>
        textCount == IF store.ok THEN Len(matched) ELSE 0
        scored == [n \in 1..Len(textResults) |->
                     [id |-> textResults[n].id, index |-> n - 1,
                      score |-> Score(textResults[n], n - 1, intent)]]
        Rank(n) == 1 + Cardinality({m \in 1..Len(scored) :
                          \/ scored[m].score > scored[n].score
                          \/ scored[m].score = scored[n].score /\ m < n})
        allResults == [r \in 1..Len(scored) |->
                         scored[CHOOSE n \in 1..Len(scored) : Rank(n) = r]]
        total == IF textCount > Len(allResults) THEN textCount ELSE Len(allResults)
    IN  IF query = ""
        THEN [SearchFailed EXCEPT !.status = 400]
        ELSE IF \/ ~intent.keywords.isArray
                \/ ~intent.sourceTypes.isArray
                \/ ~intent.contentTypes.isArray
                \/ Len(textResults) > 0 /\ ~intent.topics.isArray
        THEN SearchFailed
        ELSE [status |-> 200,
              items |-> SubSeq(allResults, 1,
                               IF Len(allResults) < limit THEN Len(allResults) ELSE limit),
              total |-> total,
              totalPages |-> (total + limit - 1) \div limit,
              intent |-> intent]

\* the pages of one search that are asked for in the model
NumPages == 3

CallSearch(query, response, store, limit) ==
    /\ call = NoCall
    /\ call' = [fn |-> "search", query |-> query, response |-> response,
                store |-> store, limit |-> limit,
                pages |-> [page \in 1..NumPages |->
                             SearchPost(query, response, store, page, limit)]]
    /\ UNCHANGED pipeline

\* the greatest number of rows in the store, and in a store of rows that
\* hold the keyword in the body, one of them in the title as well
MaxStored == 3
MaxRows == 27

\* the searches of the model: the query, the answer of the intent call, the
\* store and the limit of each
SearchInputs ==
    LET Row(title, description, body) ==
            [id |-> 0, title |-> title, description |-> description,
             summary |-> NULL, body_text |-> body, topics |-> <<>>,
             source_type |-> "web", content_type |-> "article"]
        Numbered(rows) == [n \in 1..Len(rows) |-> [rows[n] EXCEPT !.id = n]]
        InTitle == Row("Design systems", NULL, "a long read")
        InBody == Row("Weekly notes", NULL, "thoughts about design")
        InTopics == [Row("Tools of the trade", "a list", "of things")
                        EXCEPT !.topics = <<"design">>, !.source_type = "twitter"]
        SmallStores ==
            {Numbered(rows) :
                rows \in UNION {[1..n -> {InTitle, InBody, InTopics}] : n \in 0..MaxStored}}
        BodyStores ==
            {Numbered([n \in 1..MaxRows |-> IF n = j THEN InTitle ELSE InBody]) :
                j \in 1..MaxRows}
        Intent(keywords, topics, sourceTypes) ==
            [keywords |-> keywords, topics |-> topics, useCases |-> Array(<<>>),
             sourceTypes |-> sourceTypes, contentTypes |-> Array(<<>>),
             searchStrategy |-> "focused"]
        Good == Intent(Array(<<"Design">>), Array(<<"Design">>), Array(<<>>))
        Answers ==
            {[kind |-> "error", value |-> NoIntent],
             [kind |-> "no text", value |-> NoIntent],
             [kind |-> "not json", value |-> NoIntent],
             [kind |-> "json", value |-> NoIntent],
             [kind |-> "json", value |-> Intent(Array(<<"design">>), NotArray, Array(<<>>))],
             [kind |-> "json", value |-> Intent(Array(<<>>), Array(<<>>), Array(<<"web">>))],
             [kind |-> "json", value |-> Good]}
    IN  [query : {"", "ai design tools"}, response : Answers,
         store : [ok : BOOLEAN, rows : SmallStores], limit : {1, 2}]
           \cup [query : {"ai design tools"},
                 response : {[kind |-> "json", value |-> Good],
                             [kind |-> "error", value |-> NoIntent]},
                 store : [ok : {TRUE}, rows : BodyStores], limit : {24, MaxRows + 3}]

\* the search route and the functions that read a submitted URL, a post and
\* the tags of a page, each applied to the inputs of the model
NextParsers ==
    \/ \E in \in SearchInputs : CallSearch(in.query, in.response, in.store, in.limit)
    \/ \E u \in ResubmittedUrls : CallValidateUrlAgain(u)
    \/ \E post \in InstagramPosts : CallParsePost(post)
    \/ \E candidates \in [1..MaxMetaTags -> {NULL, "https://cdn.test/og.jpg", "/card.jpg"}],
          imgs \in UNION {[1..n -> {NULL, "/card.jpg", "/photo.jpg", "/pixel.gif"}] :
                             n \in 0..MaxImgTags},
          option \in {0, 1, 2} :
              CallExtractImages(candidates, imgs, option)
    \/ Return

SpecParsers == Init /\ [][NextParsers]_vars

\* the functions of the pipeline, each applied to the inputs of the model
NextFunctions ==
    \/ \E actors \in ApifyInputs : CallFetchFromApify(actors)
    \/ \E u \in {TweetUrl, ProfileUrl}, client \in BOOLEAN,
          r \in [fx : {"ok", "fail"}, vx : {"ok", "fail"}, actors : ApifyInputs] :
           CallTwitterScrape(u, client, r)
    \/ \E u \in PlainUrls, k \in ParamNames, v \in {"1", "2"},
          first \in BOOLEAN : CallValidateUrl(u, k, v, first)
    \/ \E in \in YouTubeInputs : CallYouTubeScrape(in.url, in.oembed, in.page)
    \/ \E u \in ClassifiedUrls, v \in ClassifiedUrls : CallDetectSourceType(u, v)
    \/ \E images \in ImageLists, fetched \in [1..MaxAssets -> BOOLEAN],
          saved \in [1..MaxAssets -> BOOLEAN],
          screenshot \in {NULL, "data", "http"}, uploaded \in BOOLEAN :
           CallProcessMedia(images, fetched, saved, screenshot, uploaded)
    \/ \E content \in AnalyzedContents, response \in AnalyzerResponses :
           CallAnalyze(content, response)
    \/ Return

SpecFunctions == Init /\ [][NextFunctions]_vars

(***************************************************************************)
(* Properties.                                                             *)
(***************************************************************************)
Running(w) == wk[w].pc # "idle"

\* worker w takes the step of its catch block
CatchStep(w) == wk[w].pc = "catch" /\ wk'[w].pc = "idle"

\* worker w takes the step of saveToDatabase that does not throw
SaveStep(w) == wk[w].pc = "save" /\ wk'[w].pc = "idle"

\* C1: once a capture record has status complete, no later worker
\* invocation for it (a redelivery included) changes its status.
C1_CompleteIsTerminal ==
    [][\A i \in Ids : content_items[i].status = "complete"
                         => content_items'[i].status = "complete"]_vars

StageOrder ==
    {<<"idle", "start">>, <<"start", "scrape">>, <<"scrape", "media">>,
     <<"scrape", "catch">>, <<"media", "analyze">>, <<"analyze", "save">>,
     <<"save", "idle">>, <<"save", "catch">>, <<"catch", "idle">>}

\* C3: the stages of an invocation run in the order scrape, media,
\* categorize, persist, and a record gets status complete only by the final
\* write of an invocation whose scrape, media and analysis have returned,
\* the write that carries the extracted, media and analysis fields of the run.
C3_CompleteOnlyByFinalWrite ==
    [][/\ \A w \in Workers :
            wk'[w].pc # wk[w].pc => <<wk[w].pc, wk'[w].pc>> \in StageOrder
       /\ \A i \in Ids :
            (content_items'[i].status = "complete"
                /\ content_items'[i] # content_items[i])
               => \E w \in Workers :
                     /\ SaveStep(w) /\ wk[w].msg.captureId = i
                     /\ wk[w].analysis # NoAnalysis
                     /\ wk[w].content.title # NULL
                           => content_items'[i].title = wk[w].content.title
                     /\ content_items'[i].images = wk[w].media.images
                     /\ content_items'[i].summary = wk[w].analysis.summary
                     /\ content_items'[i].topics = wk[w].analysis.topics
                     /\ content_items'[i].platform_data =
                           PlatformData(wk[w].content, wk[w].media,
                                        wk[w].msg.notes)]_vars

\* a record is complete with the summary of the fallback analysis and an
\* image that kept only its original URL
C3_Witness ==
    \E i \in Ids : /\ content_items[i].status = "complete"
                   /\ content_items[i].summary = "page"
                   /\ content_items[i].images # <<>>
                   /\ content_items[i].images[1].publicUrl = NoPublicUrl

\* C4: a write of status failed is made by the catch block of an invocation,
\* and the invocation that made it ends by throwing: when it is over its
\* message is in the queue again; the end of an invocation that returns
\* normally (the final write) never leaves the record failed by that step.
C4_FailedThenRaised ==
    [][/\ \A i \in Ids :
            (content_items'[i].status = "failed"
                /\ content_items'[i] # content_items[i])
               => \E w \in Workers :
                     /\ CatchStep(w) /\ wk[w].msg.captureId = i
       /\ \A w \in Workers :
            CatchStep(w) => BagIn(wk[w].msg, queue')]_vars

\* an invocation has written failed and thrown: the record is failed, no
\* invocation is running and its message waits for redelivery
C4_Witness ==
    /\ \A w \in Workers : ~Running(w)
    /\ \E i \in Ids : /\ content_items[i].status = "failed"
                      /\ \E m \in BagToSet(queue) : m.captureId = i

\* C5: an invocation whose scrape failed makes one more write, the one of the
\* catch block, and that write changes nothing but status and error_message.
C5_FailedWriteFrame ==
    [][\A w \in Workers :
          (wk[w].pc = "catch" /\ wk[w].threw = "scrape" /\ wk'[w].pc # "catch")
             => /\ CatchStep(w)
                /\ LET i == wk[w].msg.captureId
                   IN  content_items' = [content_items EXCEPT ![i] =
                           [@ EXCEPT !.status = content_items'[i].status,
                                     !.error_message =
                                         content_items'[i].error_message]]]_vars

\* a record that was complete is failed by a later run whose scrape failed,
\* and still has the title, the images and the summary of the earlier run
C5_Witness ==
    \E i \in Ids : /\ content_items[i].status = "failed"
                   /\ content_items[i].error_message # <<"Database save failed">>
                   /\ content_items[i].title # NULL
                   /\ content_items[i].summary # NULL

\* the fields of a row but the time stamps
ButTimestamps(row) == [row EXCEPT !.processed_at = FALSE]

\* C6: two runs of the pipeline for the same capture with the same message
\* and the same responses leave the same record but for the time stamps,
\* whatever the record was before the second run.
C6_RerunLeavesSameRecord ==
    \A a, b \in snapshot :
        a.msg = b.msg => ButTimestamps(a.row) = ButTimestamps(b.row)

\* C7: no two invocations process the same capture id at the same time.
C7_OneInvocationPerCapture ==
    \A v, w \in Workers :
        (v # w /\ Running(v) /\ Running(w))
           => wk[v].msg.captureId # wk[w].msg.captureId

\* C8: no two records have the same source_url, and a submission that loses
\* to an existing record (409 at the check, or the insert rejected) has
\* created no record and published no message.
C8_UniqueSourceUrl ==
    /\ \A i, j \in Ids :
          content_items[i].source_url = content_items[j].source_url => i = j
    /\ \A c \in Clients :
          req[c].response \in {"409", "500"}
             => req[c].id = 0 /\ ~req[c].queued
    /\ Len(content_items) = Cardinality({c \in Clients : req[c].id # 0})
    /\ BagCardinality(queue) = Cardinality({c \in Clients : req[c].queued})

\* two submissions of the same URL have both passed the exists-check; one
\* has inserted the record and the insert of the other was rejected
C8_Witness ==
    \E c, d \in Clients :
        /\ c # d
        /\ req[c].normalized = req[d].normalized
        /\ req[c].response = "pending" /\ req[c].id # 0
        /\ req[d].response = "500" /\ req[d].id = 0

\* C9: a capture that the endpoint accepted (record inserted, response
\* pending) eventually has status complete or failed, when the endpoint and
\* the workers keep running and the queue keeps delivering what is
\* published (up to the bound on the deliveries).
C9_AcceptedReachesTerminal ==
    \A c \in Clients :
        (req[c].response = "pending")
           ~> \/ \E i \in Ids : /\ i = req[c].id
                              /\ content_items[i].status \in {"complete", "failed"}
              \/ deliveries = MaxDeliveries

\* C10: when the Twitter chain is exhausted, the aggregated error carries
\* one failure reason for each strategy that was attempted.
C10_OneReasonPerStrategy ==
    \A w \in Workers :
        (wk[w].pc = "catch" /\ wk[w].threw = "scrape"
            /\ wk[w].scraper = "twitter" /\ wk[w].attempted > 0)
           => wk[w].reasons = wk[w].attempted

\* C11: an Apify result whose text is a placeholder ("test tweet") or is
\* shorter than five characters ("hey") is never the result of
\* fetchFromApify: the result is the tweet of the first actor that gave a
\* text which is neither; after a rejected text the next actor is called;
\* when no actor is left the result is null and the scrape throws.
C11_InvalidTweetNeverReturned ==
    call.fn = "fetchFromApify" =>
        LET actors == call.actors
            r == call.result
            Rejected(i) == /\ actors[i] \in ActorTexts
                           /\ actors[i] = "test tweet" \/ Len(actors[i]) < 5
            Gave(i) == actors[i] \in ActorTexts /\ ~Rejected(i)
        IN  /\ r.found => /\ Gave(r.actor)
                           /\ \A j \in 1..(r.actor - 1) : ~Gave(j)
                           /\ call.scrape.ok
            /\ ~r.found => /\ \A i \in 1..NumActors : ~Gave(i)
                            /\ r.tried = NumActors
                            /\ ~call.scrape.ok
            /\ \A i \in 1..NumActors :
                   Rejected(i) /\ (\A j \in 1..(i - 1) : ~Gave(j)) =>
                       IF i < NumActors THEN r.tried > i ELSE ~r.found

\* a placeholder and a short text are passed over, the third actor's tweet
\* is returned
C11_Witness ==
    /\ call.fn = "fetchFromApify"
    /\ call.actors = <<"test tweet", "hey", "a real tweet">>
    /\ call.result.found /\ call.result.actor = 3
    /\ call.scrape.ok

\* C12: an invocation whose scrape has thrown, and which is about to mark
\* the capture failed, has attempted the generic scraper: the generic
\* scraper is the last one tried for every source type.
C12_GenericIsFinalFallback ==
    \A w \in Workers :
        wk[w].pc = "catch" /\ wk[w].threw = "scrape" =>
            wk[w].scraper = "generic"

\* C13: a valid URL and the same URL with one more query parameter of the
\* tracking set (a name that begins with utm_, or one of igsh, igshid,
\* ig_rid, s, t, ref, ref_src, ref_url, fbclid, gclid, gclsrc, mc_cid,
\* mc_eid, _ga, _gl), whatever its value and place, have the same
\* normalized URL, in which the parameter does not occur.
C13_TrackingParamsStripped ==
    call.fn = "validateUrl" =>
        LET name == call.name
            tracking ==
                \/ Len(name) >= 4 /\ SubSeq(name, 1, 4) = "utm_"
                \/ name \in {"igsh", "igshid", "ig_rid", "s", "t", "ref",
                              "ref_src", "ref_url", "fbclid", "gclid", "gclsrc",
                              "mc_cid", "mc_eid", "_ga", "_gl"}
        IN  tracking /\ call.result.valid =>
                /\ call.trackedResult = call.result
                /\ \A i \in 1..Len(call.trackedResult.normalized.search) :
                       call.trackedResult.normalized.search[i].k # name

\* C14: detectSourceType depends on the hostname only: a URL whose
\* hostname contains none of the platform names is web whatever its path
\* and query are, and two URLs with the same hostname have the same type.
C14_SourceTypeOfHostnameOnly ==
    call.fn = "detectSourceType" =>
        LET host == call.url.hostname
            HostHas(pat) ==
                \E i \in 1..(Len(host) - Len(pat) + 1) :
                    SubSeq(host, i, i + Len(pat) - 1) = pat
        IN  /\ (\A pat \in {"twitter.com", "x.com", "instagram.com",
                              "youtube.com", "youtu.be", "linkedin.com",
                              "pinterest.com", "pin.it"} : ~HostHas(pat))
                   => call.result = "web"
            /\ call.otherResult = call.result

\* C15 as stated: the persisted images hold one entry for every image of
\* the content, in the same order, with the URL of the image as
\* originalUrl; the entry has a public URL and a storage path exactly when
\* the download and the upload of the image both succeeded.
C15_NoImageDropped ==
    call.fn = "processMedia" =>
        /\ Len(call.persisted) = Len(call.images)
        /\ \A i \in 1..Len(call.images) :
               LET e == call.persisted[i]
                   stored == call.fetched[i] /\ call.saved[i]
               IN  /\ e.originalUrl = call.images[i]
                   /\ (e.publicUrl # NoPublicUrl) <=> stored
                   /\ (e.gcsPath # NoPath) <=> stored

\* C15 amended: the persisted images hold one entry for every image of the
\* content that has a URL, in the same order, with that URL as originalUrl
\* (an entry without URL is skipped); the entry has the public URL and the
\* storage path of the image's index exactly when the download and the
\* upload both succeeded, and the original URL only otherwise.
C15_NoImageWithUrlDropped ==
    call.fn = "processMedia" =>
        LET withUrl == {i \in 1..Len(call.images) : call.images[i] # NoUrl}
            Rank(i) == Cardinality({j \in withUrl : j <= i})
        IN  /\ Len(call.persisted) = Cardinality(withUrl)
            /\ call.persisted = call.result.images
            /\ \A i \in withUrl :
                   LET e == call.persisted[Rank(i)]
                   IN  /\ e.originalUrl = call.images[i]
                       /\ IF call.fetched[i] /\ call.saved[i]
                          THEN /\ e.gcsPath = <<"images", i - 1>>
                               /\ e.publicUrl =
                                      <<"storage.googleapis.com", e.gcsPath>>
                          ELSE e.gcsPath = <<>> /\ e.publicUrl = <<>>

\* two images, the first stored, the upload of the second failed: two
\* entries, the second with its original URL only
C15_Witness ==
    /\ call.fn = "processMedia"
    /\ call.images = <<2, 1>>
    /\ call.fetched[2] /\ ~call.saved[2]
    /\ Len(call.persisted) = 2
    /\ call.persisted[1].publicUrl # NoPublicUrl
    /\ call.persisted[2] =
           [originalUrl |-> 1, gcsPath |-> NoPath, publicUrl |-> NoPublicUrl]

\* C17: every result of analyze, parsed or fallback, has between one and
\* five topics and between one and three useCases.
C17_TopicsAndUseCasesBounded ==
    call.fn = "analyze" /\ ~call.outcome.raised =>
        /\ Len(call.outcome.result.topics) \in 1..5
        /\ Len(call.outcome.result.useCases) \in 1..3

\* C18: the summary of every result of analyze, parsed or fallback, has at
\* most 500 characters.
C18_SummaryAtMost500 ==
    call.fn = "analyze" /\ ~call.outcome.raised =>
        Len(call.outcome.result.summary) <= 500

\* the text-generation call threw, gave no text block, or gave a text that
\* is not JSON or is the JSON value null
CallOrParseFailed ==
    \/ call.response.kind \in {"error", "no_text"}
    \/ call.response.kind = "text"
          /\ call.response.text.json \in {"invalid", "null"}

\* C19: analyze never raises, whatever the content and the outcome of the
\* text-generation call are; when the call or the parse failed its result
\* is the fallback analysis of the content, and the parsed one otherwise.
C19_AnalyzeNeverRaises ==
    call.fn = "analyze" =>
        /\ ~call.outcome.raised
        /\ CallOrParseFailed =>
               /\ call.outcome.result = getFallbackAnalysis(call.content)
               /\ call.outcome.result.useCases = <<"Reference">>
        /\ ~CallOrParseFailed =>
               call.outcome.result = parseResponse(call.response.text).result

\* a text that is not JSON: the fallback analysis, with the description as
\* summary
C19_Witness ==
    /\ call.fn = "analyze"
    /\ call.response.kind = "text" /\ call.response.text.json = "invalid"
    /\ call.content.description = "learning to code"
    /\ ~call.outcome.raised
    /\ call.outcome.result.summary = "learning to code"
    /\ call.outcome.result.topics = <<"Technology">>

\* the keywords of the coarse topics
TopicKeywords(topic) ==
    CASE topic = "AI" -> {"ai", "artificial intelligence", "machine learning"}
      [] topic = "Design" -> {"design", "ui", "ux"}
      [] topic = "Business" -> {"business", "startup", "company"}
      [] topic = "Technology" -> {"code", "programming", "developer"}

CoarseTopics == {"AI", "Design", "Business", "Technology"}

\* keyword kw occurs in text s, whatever the case of the letters of s
Occurs(kw, s) == s # NULL /\ StrIncludes(LowerCase(s), kw)

\* on the fallback path: the summary is the description, else the title,
\* else the placeholder, and the topics are those of Matched, or General
\* alone when there is none
FallbackIs(Matched) ==
    call.fn = "analyze" /\ call.response.kind = "error" =>
        LET content == call.content
            result == call.outcome.result
            topics == {result.topics[i] : i \in 1..Len(result.topics)}
        IN  /\ result.summary =
                   IF content.description \notin {NULL, ""}
                   THEN content.description
                   ELSE IF content.title \notin {NULL, ""} THEN content.title
                   ELSE "Content saved for later reference."
            /\ Cardinality(topics) = Len(result.topics)
            /\ topics = IF Matched = {} THEN {"General"} ELSE Matched
            /\ (\E s \in {content.title, content.description, content.bodyText} :
                    Occurs("machine learning", s)) => "AI" \in topics

\* C20 as stated: on the fallback path the summary is the description when
\* present, else the title when present, else the placeholder; the topics
\* are exactly the coarse topics one of whose keywords occurs in the title,
\* in the description or in the body text, or General alone; a text that
\* contains "machine learning" gives AI.
C20_FallbackOfEachText ==
    FallbackIs({topic \in CoarseTopics :
                   \E kw \in TopicKeywords(topic),
                      s \in {call.content.title, call.content.description,
                             call.content.bodyText} : Occurs(kw, s)})

\* C20 amended: the same, the keywords being looked for in the one text
\* made of title, description and body text joined by single spaces (a
\* keyword of two words can lie across two of them).
C20_FallbackOfJoinedText ==
    FallbackIs({topic \in CoarseTopics :
                   \E kw \in TopicKeywords(topic) :
                       Occurs(kw, OrEmpty(call.content.title) \o " "
                                    \o OrEmpty(call.content.description) \o " "
                                    \o OrEmpty(call.content.bodyText))})

\* the call failed for a content whose description holds "Machine
\* Learning": topic AI, the description as summary
C20_Witness ==
    /\ call.fn = "analyze" /\ call.response.kind = "error"
    /\ call.content.title = NULL /\ call.content.bodyText = NULL
    /\ call.content.description = "Notes on Machine Learning"
    /\ call.outcome.result.topics = <<"AI">>
    /\ call.outcome.result.summary = "Notes on Machine Learning"

\* C16: once the scrape of an invocation has succeeded, no outcome of the
\* media step (images or screenshot not stored) and no outcome of the
\* analysis (the call throws, no text, text that is not JSON) sends the
\* invocation to its catch block: media is followed by the analysis, the
\* analysis by the final write, and the final write, when the store accepts
\* it, leaves the capture complete.
C16_DegradedStepsStillComplete ==
    [][\A w \in Workers :
          /\ wk[w].pc = "media" /\ wk'[w] # wk[w] => wk'[w].pc = "analyze"
          /\ wk[w].pc = "analyze" /\ wk'[w] # wk[w] => wk'[w].pc = "save"
          /\ SaveStep(w) =>
                 content_items'[wk[w].msg.captureId].status = "complete"]_vars

\* a capture is complete although its image and its screenshot could not be
\* stored and the analysis fell back
C16_Witness ==
    \E i \in Ids :
        /\ content_items[i].status = "complete"
        /\ Len(content_items[i].images) = MaxImages
        /\ \A k \in 1..MaxImages :
               content_items[i].images[k].gcsPath = NoPath
        /\ <<"screenshot", "http">> \in content_items[i].platform_data
        /\ content_items[i].topics = <<"General">>
        /\ content_items[i].summary = "page"

\* C29: a record with status complete has no error_message.
C29_CompleteHasNoErrorMessage ==
    \A i \in Ids :
        content_items[i].status = "complete"
           => content_items[i].error_message = NoError

\* C30: while a record is complete, no step of an invocation that was
\* delivered before the complete write sets its status to processing or to
\* failed.  (No message of a complete record is delivered in SpecOverlap:
\* an invocation that runs for a complete record was delivered before the
\* write that made it complete.)
C30_NoWriteAfterComplete ==
    [][\A w \in Workers, i \in Ids :
          (/\ Running(w) /\ wk[w].msg.captureId = i
           /\ content_items[i].status = "complete"
           /\ wk'[w] # wk[w])
             => content_items'[i].status \notin {"processing", "failed"}]_vars

\* C25: the scrape of a tweet URL asks FxTwitter, then VxTwitter, then the
\* Apify actors one after the other (when there is an Apify client); its
\* result is the content of the first of them, in this order, that gave a
\* tweet; exactly the strategies up to that one have been invoked, and all
\* of them when none gave a tweet, in which case the scrape throws.
C25_FirstSuccessWins ==
    call.fn = "TwitterScrape" /\ call.url = TweetUrl =>
        LET r == call.responses
            strategies == <<"fx", "vx", "apify", "apify", "apify">>
            last == IF call.client THEN 5 ELSE 2
            GaveTweet(k) ==
                CASE k = 1 -> r.fx = "ok"
                  [] k = 2 -> r.vx = "ok"
                  [] OTHER -> /\ r.actors[k - 2] \notin {"throw", "empty",
                                                          "test tweet"}
                              /\ Len(r.actors[k - 2]) >= 5
            winners == {k \in 1..last : GaveTweet(k)}
        IN  IF winners # {}
            THEN LET first == CHOOSE k \in winners : \A j \in winners : k <= j
                 IN  /\ call.result.ok
                     /\ call.result.content.title = strategies[first]
                     /\ call.result.attempted = first
            ELSE ~call.result.ok /\ call.result.attempted = last

\* FxTwitter and VxTwitter fail, the first actor throws, the second gives a
\* tweet: the result is the tweet of Apify after four invocations, although
\* the third actor would have given a tweet too
C25_Witness ==
    /\ call.fn = "TwitterScrape" /\ call.url = TweetUrl /\ call.client
    /\ call.responses.fx = "fail" /\ call.responses.vx = "fail"
    /\ call.responses.actors = <<"throw", "a real tweet", "a real tweet">>
    /\ call.result.ok
    /\ call.result.content.title = "apify"
    /\ call.result.attempted = 4

\* C28: for every URL that validateUrl accepts, validateUrl of its
\* normalized form is valid and gives that same normalized form.
C28_NormalizationIdempotent ==
    call.fn = "validateUrlAgain" /\ call.result.valid =>
        /\ call.again.valid
        /\ call.again.normalized = call.result.normalized

\* C26: the images of a parsed Instagram post hold no URL twice, and neither
\* do its videos, whatever the carousel children and the listed images are.
C26_NoDuplicateMedia ==
    call.fn = "parsePost" =>
        LET NoTwoAlike(list) == \A j, k \in 1..Len(list) : list[j] = list[k] => j = k
        IN  NoTwoAlike(call.result.images) /\ NoTwoAlike(call.result.videos)

\* C27: the generic scraper never returns more images than maxImages, the
\* images of the meta tags counted together with those of the img elements.
C27_AtMostMaxImages ==
    call.fn = "extractImages" => Len(call.result) <= call.maxImages

\* C24: the YouTube scrape returns content for every outcome of the oEmbed
\* lookup and of the page fetch.  When the page fetch fails, the title, the
\* author and the thumbnail of the oEmbed answer are in the content; when the
\* oEmbed lookup fails, the title, description, image and author of the page
\* are; the oEmbed answer is kept in the platform data in every case.
C24_YouTubeNeverFailsTotally ==
    call.fn = "YouTubeScrape" =>
        LET result == call.result
            data == call.oembed.data
            meta == OpenGraphOf(call.page.page)
            Images(thumbnail) == IF Falsy(thumbnail) THEN <<>> ELSE <<thumbnail>>
        IN  /\ result.ok
            /\ result.oembed = data
            /\ call.page.kind # "ok" =>
                  /\ result.title = data.title
                  /\ result.authorName = data.author_name
                  /\ result.images = Images(data.thumbnail_url)
            /\ call.oembed.kind # "ok" /\ call.page.kind = "ok" =>
                  /\ result.title = meta.title
                  /\ result.description = meta.description
                  /\ result.authorName = meta.author
                  /\ result.images = Images(meta.image)
            /\ call.url.pathname # <<"channel">>
                  => Len(result.videos) = 1 /\ result.videos[1].url = "abc"

\* the page fetch throws and the oEmbed lookup answers: the content is built
\* from the oEmbed answer
C24_Witness ==
    /\ call.fn = "YouTubeScrape"
    /\ call.page.kind = "throws" /\ call.oembed.kind = "ok"
    /\ call.result.ok
    /\ call.result.title = "oembed title"
    /\ call.result.images = <<"https://i.ytimg.test/hq.jpg">>

\* C21: when the intent call fails or its answer is no SearchIntent (the call
\* throws, no text, no JSON, JSON without the fields), a search with a query
\* answers with a page of results and with the heuristic intent.
C21_IntentFailureNeverFatal ==
    (/\ call.fn = "search" /\ call.query # ""
     /\ \/ call.response.kind # "json"
        \/ \E f \in {"keywords", "topics", "useCases", "sourceTypes", "contentTypes"} :
              ~call.response.value[f].isArray)
      => \A page \in 1..NumPages :
            /\ call.pages[page].status = 200
            /\ call.pages[page].intent.keywords = Array(QueryTokens(call.query))
            /\ call.pages[page].intent.topics = Array(<<>>)
            /\ call.pages[page].intent.searchStrategy = "broad"

\* C22: of two items of a page that differ only in that a keyword of the
\* intent is in the title of one and only in the body text of the other, the
\* one with the keyword in the title has the strictly higher score and comes
\* first.
C22_TitleBeforeBody ==
    call.fn = "search" =>
        \A page \in 1..NumPages :
            LET result == call.pages[page]
                keywords == result.intent.keywords.items
                Row(n) == call.store.rows[result.items[n].id]
                TitleAgainstBody(a, b) ==
                    /\ Row(a).description = Row(b).description
                    /\ Row(a).summary = Row(b).summary
                    /\ Row(a).topics = Row(b).topics
                    /\ \E k \in 1..Len(keywords) :
                          /\ FieldIncludes(Row(a).title, keywords[k])
                          /\ FieldIncludes(Row(b).body_text, keywords[k])
                    /\ \A k \in 1..Len(keywords) : ~FieldIncludes(Row(b).title, keywords[k])
            IN  \A a, b \in 1..Len(result.items) :
                    TitleAgainstBody(a, b) =>
                        /\ result.items[a].score > result.items[b].score
                        /\ a < b

\* C23: every item of page p scores at least as high as every item of page
\* p + 1, no item is on two pages, and the pages hold every candidate.
C23_SortedOverAllPages ==
    (call.fn = "search" /\ \A page \in 1..NumPages : call.pages[page].status = 200) =>
        LET Items(page) == call.pages[page].items
            OnPage(page) == {Items(page)[n].id : n \in 1..Len(Items(page))}
        IN  /\ \A page \in 1..(NumPages - 1) :
                  \A a \in 1..Len(Items(page)), b \in 1..Len(Items(page + 1)) :
                      Items(page)[a].score >= Items(page + 1)[b].score
            /\ \A p, q \in 1..NumPages : p # q => OnPage(p) \cap OnPage(q) = {}
            /\ call.store.ok /\ call.pages[1].total <= NumPages * call.limit =>
                  Cardinality(UNION {OnPage(page) : page \in 1..NumPages})
                      = call.pages[1].total

====
